---- MODULE Spec2Model ----
(***************************************************************************)
(* Recipe Genie backend (app.py): the per-key quota kept in the api_keys   *)
(* collection, the require_api_key decorator (verify_api_key, rate_limit)  *)
(* and the generate_recipe_and_image pipeline, for concurrent requests.    *)
(*                                                                         *)
(* Each request is handled by its own thread; a step of the model is one   *)
(* blocking call of the handler (a Firestore read or write, a remote call, *)
(* a storage call) or the local computation of one stage.                  *)
(***************************************************************************)
EXTENDS Integers, Sequences, FiniteSets, TLC

VARIABLES
    api_keys,   \* the api_keys collection: key -> document
    users,      \* the users collection: the ids that have a document
    subscribing,\* the ids of the /subscribe calls that have written the
                \* user document and not yet the key document
    bucket,     \* the objects of the storage bucket
    now,        \* the clock, in seconds
    ticks,      \* how often the clock has advanced
    req,        \* the requests: position, locals and response of each
    admits,     \* history: key -> (time -> requests admitted at that time)
    raced       \* history: the keys of which some quota write found the
                \* document changed since its request read it

vars == <<api_keys, users, subscribing, bucket, now, ticks, req, admits,
          raced>>

\* ------------------------------------------------------------------------
\* Program constants
RATE_LIMIT == 100
RATE_LIMIT_WINDOW == 3600

\* 'last_request_time': None of a fresh api_keys document
None == -1

\* ------------------------------------------------------------------------
\* Bounds of the model
NumRequests == 2            \* requests issued in one behaviour (all may overlap)
MaxTicks == 2               \* clock advances in one behaviour

Requests == 1..NumRequests

\* Clock advances: one second, or a whole window
TickDeltas == {1, RATE_LIMIT_WINDOW}

\* The n-th value returned by uuid4(): keys and object names are numbered.
\* Key 1 exists at start; 0 stands for a missing or empty x-api-key header.
NoHeader == 0
KeyIds == {1, 2}
Headers == {NoHeader} \cup KeyIds

UniqueIds == {"", "u1"}
Plans == {"", "basic"}

\* ------------------------------------------------------------------------
\* Text as the handler sees it: a sequence of tokens.  A token is "**", ":",
\* ",", a space, a newline, a label ("Visualization Prompt") or a run of other
\* characters; the strings the patterns look for occur only as whole tokens.
NL == "\n"

\* the capital letters and, at the same place, their lower-case letters
UpperCase == "ABCDEFGHIJKLMNOPQRSTUVWXYZ"

LowerCase == "abcdefghijklmnopqrstuvwxyz"

\* str.lower() of one character: a capital letter becomes its lower-case
\* letter, every other character is kept
LowerChar ==
    [c \in {SubSeq(UpperCase, i, i) : i \in 1..Len(UpperCase)} |->
        LET i == CHOOSE j \in 1..Len(UpperCase) : SubSeq(UpperCase, j, j) = c
        IN  SubSeq(LowerCase, i, i)]

\* str.lower() of one token, character by character
RECURSIVE LowerTok(_)
LowerTok(t) ==
    IF Len(t) = 0 THEN t
    ELSE LET c == SubSeq(t, 1, 1)
         IN  (IF c \in DOMAIN LowerChar THEN LowerChar[c] ELSE c)
                 \o LowerTok(SubSeq(t, 2, Len(t)))

\* str.lower()
lower(s) == [i \in 1..Len(s) |-> LowerTok(s[i])]

IsSpace(t) == t \in {" ", NL}

\* str.strip()
RECURSIVE strip(_)
strip(s) ==
    IF s = <<>> THEN s
    ELSE IF IsSpace(Head(s)) THEN strip(Tail(s))
    ELSE IF IsSpace(s[Len(s)]) THEN strip(SubSeq(s, 1, Len(s) - 1))
    ELSE s

\* str.split(','): the pieces between the "," tokens (always at least one)
RECURSIVE split(_)
split(s) ==
    IF \A i \in 1..Len(s) : s[i] # ","
    THEN <<s>>
    ELSE LET i == CHOOSE j \in 1..Len(s) :
                      s[j] = "," /\ \A k \in 1..(j - 1) : s[k] # ","
         IN  <<SubSeq(s, 1, i - 1)>> \o split(SubSeq(s, i + 1, Len(s)))

\* failure_phrases of check_recipe_failure, as written (the last two string
\* literals are adjacent, so Python joins them into one phrase)
failure_phrases == {
    "unable to generate", "cannot be reconciled", "impossible to create",
    "failed to create", "cannot generate", "unable to produce",
    "error generating", "failed to produce", "due to", "because of",
    "as a result of", "due to the constraints", "because of the restrictions",
    "insufficient ingredients", "lack of required ingredients",
    "unable to comply with the dietary restrictions", "allergy constraints",
    "I'm sorry", "unfortunately", "regrettably", "apologies", "please note",
    "note that", "take note", "consider using different ingredients",
    "try adjusting", "you might want to", "please try again",
    "check the ingredients", "reevaluate the constraints", "you can modify",
    "recipe not possible", "unable to proceed",
    "unable to fulfill the request", "cannot comply", "cannot accommodate",
    "recipe generation unsuccessful", "unable to formulate",
    "request cannot be completed", "unable to create", "unable to craft",
    "insufficient viable ingredients", "restrictions too limiting",
    "constraints not met", "does not meet criteria",
    "unable to meet requirements", "does not adhere to guidelines",
    "unable to satisfy the constraints",
    "cannot accommodate the given constraints", "recipe creation halted",
    "unable to generate a feasible recipe",
    "unable to proceed with the given inputs",
    "combination of ingredients not workable",
    "unable to generate under given restrictions",
    "recipe creation not possible with current inputs",
    "recipe cannot be constructed", "unable to construct a recipe",
    "recipe formulation failed", "it is not possible to create",
    "it is not possible to create a recipeunable to provide a suitable recipe" }

\* `phrase in recipe_text_lower` for the token vocabulary of the model, in
\* which a phrase occurs in a text only as a whole token
check_recipe_failure(recipe_text) ==
    LET recipe_text_lower == lower(recipe_text)
    IN  \E phrase \in failure_phrases :
            \E i \in 1..Len(recipe_text_lower) : recipe_text_lower[i] = phrase

\* ------------------------------------------------------------------------
\* Recipe Text Extractor

\* the last token of the line that starts at token i (s[i] is no newline)
LineEnd(s, i) ==
    CHOOSE j \in i..Len(s) :
        /\ \A k \in i..j : s[k] # NL
        /\ (j = Len(s) \/ s[j + 1] = NL)

\* s[i..] starts with the tokens of lit
StartsAt(s, i, lit) ==
    /\ i >= 1
    /\ i + Len(lit) - 1 <= Len(s)
    /\ \A k \in 1..Len(lit) : s[i + k - 1] = lit[k]

\* s without the tokens first..last
Cut(s, first, last) == SubSeq(s, 1, first - 1) \o SubSeq(s, last + 1, Len(s))

NoMatch == [found |-> FALSE, first |-> 0, last |-> 0, g1 |-> 0, g2 |-> 0]
Match(first, last, g1, g2) ==
    [found |-> TRUE, first |-> first, last |-> last, g1 |-> g1, g2 |-> g2]

RecipeNameLabel == <<"**", "Recipe Name", "**", NL>>
VisPromptLabel == <<"**", "Visualization Prompt", "**", NL>>
NutritionalLabel == <<"**", "Nutritional Value", "**">>

\* r"\*\*Recipe Name\*\*\n(.+?)\n\n" tried at token i
NamePattern1At(s, i) ==
    /\ StartsAt(s, i, RecipeNameLabel)
    /\ i + 4 <= Len(s)
    /\ s[i + 4] # NL
    /\ StartsAt(s, LineEnd(s, i + 4) + 1, <<NL, NL>>)

\* name_patterns[n], by re.search: the leftmost match, its span first..last
\* and its group g1..g2
NamePattern(n, s) ==
    CASE n = 1 ->
           IF \E i \in 1..Len(s) : NamePattern1At(s, i)
           THEN LET i == CHOOSE i \in 1..Len(s) :
                           /\ NamePattern1At(s, i)
                           /\ \A k \in 1..(i - 1) : ~NamePattern1At(s, k)
                    e == LineEnd(s, i + 4)
                IN  Match(i, e + 2, i + 4, e)
           ELSE NoMatch
      [] n = 2 ->   \* r"^(.+?)\n\n"
           IF Len(s) >= 1 /\ s[1] # NL /\ StartsAt(s, LineEnd(s, 1) + 1, <<NL, NL>>)
           THEN Match(1, LineEnd(s, 1) + 2, 1, LineEnd(s, 1))
           ELSE NoMatch
      [] n = 3 ->   \* r"^(.+?)\n"
           IF Len(s) >= 1 /\ s[1] # NL /\ StartsAt(s, LineEnd(s, 1) + 1, <<NL>>)
           THEN Match(1, LineEnd(s, 1) + 1, 1, LineEnd(s, 1))
           ELSE NoMatch
      [] n = 4 ->   \* r"^\"(.+?)\"\n"
           IF /\ Len(s) >= 4
              /\ s[1] = "\""
              /\ s[2] # NL
              /\ \E q \in 3..LineEnd(s, 2) :
                    s[q] = "\"" /\ StartsAt(s, q + 1, <<NL>>)
           THEN LET q == CHOOSE q \in 3..LineEnd(s, 2) :
                           s[q] = "\"" /\ StartsAt(s, q + 1, <<NL>>)
                IN  Match(1, q + 1, 2, q - 1)
           ELSE NoMatch
      [] n = 5 ->   \* r"^Recipe Name:\s*(.+)"
           IF /\ StartsAt(s, 1, <<"Recipe Name", ":">>)
              /\ \E g \in 3..Len(s) :
                    /\ \A k \in 3..(g - 1) : IsSpace(s[k])
                    /\ s[g] # NL
           THEN LET g == CHOOSE g \in 3..Len(s) :
                           /\ \A k \in 3..(g - 1) : IsSpace(s[k])
                           /\ s[g] # NL
                           /\ \A h \in (g + 1)..Len(s) :
                                 ~(\A k \in 3..(h - 1) : IsSpace(s[k]))
                                   \/ s[h] = NL
                IN  Match(1, LineEnd(s, g), g, LineEnd(s, g))
           ELSE NoMatch

NumNamePatterns == 5

\* ExtractName that leaves the match of the pattern in the text
ExtractName_KeepsMatch(recipe_text) ==
    IF \E n \in 1..NumNamePatterns : NamePattern(n, recipe_text).found
    THEN LET n == CHOOSE n \in 1..NumNamePatterns :
                    /\ NamePattern(n, recipe_text).found
                    /\ \A k \in 1..(n - 1) : ~NamePattern(k, recipe_text).found
             m == NamePattern(n, recipe_text)
             recipe_name == strip(SubSeq(recipe_text, m.g1, m.g2))
         IN  [rule |-> n,
              recipe_name |->
                 IF recipe_name = <<>> THEN <<"Incorrect Recipe">>
                 ELSE recipe_name,
              recipe_text |-> recipe_text]
    ELSE [rule |-> 0, recipe_name |-> <<"Incorrect Recipe">>,
          recipe_text |-> recipe_text]

\* lines 392-402: the first pattern that matches gives the name, and its
\* match is removed from the text once
ExtractName(recipe_text) ==
    IF \E n \in 1..NumNamePatterns : NamePattern(n, recipe_text).found
    THEN LET n == CHOOSE n \in 1..NumNamePatterns :
                    /\ NamePattern(n, recipe_text).found
                    /\ \A k \in 1..(n - 1) : ~NamePattern(k, recipe_text).found
             m == NamePattern(n, recipe_text)
             recipe_name == strip(SubSeq(recipe_text, m.g1, m.g2))
         IN  [rule |-> n,
              recipe_name |->
                 IF recipe_name = <<>> THEN <<"Incorrect Recipe">>
                 ELSE recipe_name,
              recipe_text |-> strip(Cut(recipe_text, m.first, m.last))]
    ELSE [rule |-> 0, recipe_name |-> <<"Incorrect Recipe">>,
          recipe_text |-> recipe_text]

\* line 405: re.sub(r"^\*\*(.+?)\*\*$", r"\1", recipe_name)
StripEmphasis(recipe_name) ==
    IF /\ Len(recipe_name) >= 3
       /\ recipe_name[1] = "**"
       /\ recipe_name[Len(recipe_name)] = "**"
       /\ \A k \in 1..Len(recipe_name) : recipe_name[k] # NL
    THEN SubSeq(recipe_name, 2, Len(recipe_name) - 1)
    ELSE recipe_name

\* line 409: recipe_text.replace("Recipe Name", recipe_name)
RECURSIVE ReplaceLabel(_, _)
ReplaceLabel(s, recipe_name) ==
    IF s = <<>> THEN <<>>
    ELSE (IF Head(s) = "Recipe Name" THEN recipe_name ELSE <<Head(s)>>)
             \o ReplaceLabel(Tail(s), recipe_name)

\* r"\*\*Visualization Prompt\*\*\n(.+)" tried at token i
VisPromptAt(s, i) ==
    /\ StartsAt(s, i, VisPromptLabel)
    /\ i + 4 <= Len(s)
    /\ s[i + 4] # NL

\* re.sub(r"\*\*Visualization Prompt\*\*\n(.+)", "", s): every match removed
RECURSIVE RemoveVisPrompts(_)
RemoveVisPrompts(s) ==
    IF \E i \in 1..Len(s) : VisPromptAt(s, i)
    THEN LET i == CHOOSE i \in 1..Len(s) :
                    VisPromptAt(s, i) /\ \A k \in 1..(i - 1) : ~VisPromptAt(s, k)
             e == LineEnd(s, i + 4)
         IN  SubSeq(s, 1, i - 1) \o RemoveVisPrompts(SubSeq(s, e + 1, Len(s)))
    ELSE s

\* recipe_text.replace(match.group(0), ""): every occurrence of the matched
\* text removed
RECURSIVE RemoveAll(_, _)
RemoveAll(s, lit) ==
    IF \E i \in 1..Len(s) : StartsAt(s, i, lit)
    THEN LET i == CHOOSE i \in 1..Len(s) :
                    StartsAt(s, i, lit) /\ \A k \in 1..(i - 1) : ~StartsAt(s, k, lit)
         IN  SubSeq(s, 1, i - 1)
                 \o RemoveAll(SubSeq(s, i + Len(lit), Len(s)), lit)
    ELSE s

DefaultVisPrompt == <<"Default visualization prompt based on recipe">>

\* generate_image_prompt, lines 227-235
generate_image_prompt(recipe_text) ==
    IF \E i \in 1..Len(recipe_text) : VisPromptAt(recipe_text, i)
    THEN LET i == CHOOSE i \in 1..Len(recipe_text) :
                    /\ VisPromptAt(recipe_text, i)
                    /\ \A k \in 1..(i - 1) : ~VisPromptAt(recipe_text, k)
             e == LineEnd(recipe_text, i + 4)
         IN  [vis_prompt |-> strip(SubSeq(recipe_text, i + 4, e)),
              recipe_text |->
                  strip(RemoveAll(recipe_text, SubSeq(recipe_text, i, e))),
              vis_prompt_found |-> TRUE]
    ELSE [vis_prompt |-> DefaultVisPrompt,
          recipe_text |-> strip(RemoveVisPrompts(recipe_text)),
          vis_prompt_found |-> FALSE]

\* re.sub(r"Visualization Prompt:.*", "", s): every match removed, each up
\* to the end of its line
RECURSIVE RemoveVisPromptLines(_)
RemoveVisPromptLines(s) ==
    LET lit == <<"Visualization Prompt", ":">>
    IN  IF \E i \in 1..Len(s) : StartsAt(s, i, lit)
        THEN LET i == CHOOSE i \in 1..Len(s) :
                        /\ StartsAt(s, i, lit)
                        /\ \A k \in 1..(i - 1) : ~StartsAt(s, k, lit)
                 e == LineEnd(s, i)
             IN  SubSeq(s, 1, i - 1)
                     \o RemoveVisPromptLines(SubSeq(s, e + 1, Len(s)))
        ELSE s

\* re.sub(pattern + ".*", "", s, flags=re.DOTALL): from the first match on
CutFrom(s, lit) ==
    IF \E i \in 1..Len(s) : StartsAt(s, i, lit)
    THEN LET i == CHOOSE i \in 1..Len(s) :
                    StartsAt(s, i, lit) /\ \A k \in 1..(i - 1) : ~StartsAt(s, k, lit)
         IN  SubSeq(s, 1, i - 1)
    ELSE s

\* remove_nutritional_info, lines 272-277
remove_nutritional_info(recipe_text) ==
    strip(CutFrom(strip(CutFrom(recipe_text, NutritionalLabel)),
                  <<"Nutritional Information">>))

\* lines 416-418 (and again 448-450)
CleanUp(recipe_text) ==
    remove_nutritional_info(
        strip(RemoveVisPrompts(strip(RemoveVisPromptLines(recipe_text)))))

\* lines 423-451: the body of the response and the prompt given to
\* fetch_image; without a visualization prompt the text is cleaned once more
\* and is itself the prompt
ImagePromptOf(recipe_name, vis, cleaned) ==
    LET recipe_text == IF vis.vis_prompt_found THEN cleaned
                       ELSE CleanUp(cleaned)
    IN  [recipe_name |-> recipe_name,
         recipe_text |-> recipe_text,
         vis_prompt_found |-> vis.vis_prompt_found,
         image_prompt |-> IF vis.vis_prompt_found THEN vis.vis_prompt
                          ELSE recipe_text]

\* lines 412-418: vis is what generate_image_prompt returned
ExtractVisPrompt(recipe_name, vis) ==
    ImagePromptOf(recipe_name, vis, CleanUp(vis.recipe_text))

\* lines 409-412: the name, and the text without the match of its pattern
ExtractBody(recipe_name, recipe_text) ==
    ExtractVisPrompt(recipe_name,
        generate_image_prompt(ReplaceLabel(recipe_text, recipe_name)))

\* lines 392-451 (after the refusal check): name, body, visualization
\* prompt and the prompt given to fetch_image; named is what the name
\* patterns found
ExtractNamed(named) ==
    ExtractBody(StripEmphasis(named.recipe_name), named.recipe_text)

Extract(text) == ExtractNamed(ExtractName(text))

\* ------------------------------------------------------------------------
\* Request body of /generate_recipe_and_image and its validation

\* a JSON value of the body: absent, null, a number, a string, or a list
\* of entries; an entry is a string or a number
Absent == [t |-> "absent", s |-> <<>>, l |-> <<>>, n |-> 0]
Null == [t |-> "null", s |-> <<>>, l |-> <<>>, n |-> 0]
Number(n) == [t |-> "int", s |-> <<>>, l |-> <<>>, n |-> n]
Str(s) == [t |-> "str", s |-> s, l |-> <<>>, n |-> 0]
List(l) == [t |-> "list", s |-> <<>>, l |-> l, n |-> 0]
E(s) == [t |-> "str", s |-> s]
NumberEntry == [t |-> "int", s |-> <<>>]

\* data.get(key) and data.get(key, []) of an absent key
Get(v) == IF v.t = "absent" THEN Null ELSE v
GetOrEmpty(v) == IF v.t = "absent" THEN List(<<>>) ELSE v

\* lines 287-290 (and 296-299, 303-306): a string is split at its commas
AsList(v) ==
    IF v.t = "str"
    THEN LET pieces == split(v.s)
         IN  List([i \in 1..Len(pieces) |-> E(pieces[i])])
    ELSE v

\* Python truth value of a JSON value
Truthy(v) ==
    CASE v.t = "int" -> v.n # 0
      [] v.t = "str" -> v.s # <<>>
      [] v.t = "list" -> v.l # <<>>
      [] OTHER -> FALSE

non_vegetarian_ingredients == {
    "lamb chops", "beef steak", "pork chops", "chicken breast",
    "turkey breast", "duck breast", "veal cutlets", "pork tenderloin",
    "beef brisket", "lamb shank", "beef ribs", "pork ribs", "chicken thighs",
    "ground beef", "ground pork", "ground chicken", "ground turkey", "bacon",
    "ham", "sausage (various types)", "cornish hen", "rabbit", "venison",
    "quail", "pheasant", "bison steak", "goat meat", "frog legs", "wild boar",
    "ostrich meat", "chicken drumsticks", "chicken wings",
    "chicken tenderloins", "whole chicken", "chicken quarters",
    "chicken legs", "chicken thighs (boneless, skinless)",
    "chicken breasts (bone-in, skin-on)", "chicken sausage", "chicken liver",
    "chicken gizzards", "chicken hearts", "chicken back", "chicken neck",
    "chicken feet", "chicken cutlets", "chicken schnitzel", "chicken strips",
    "chicken nuggets", "chicken meatballs", "chicken patties",
    "rotisserie chicken", "fried chicken", "chicken kabobs",
    "chicken tenders", "chicken satay", "chicken cordon bleu",
    "beef burger patty", "turkey burger patty", "chicken burger patty",
    "pork burger patty", "lamb burger patty", "veal burger patty",
    "bison burger patty", "venison burger patty", "salmon burger patty",
    "tuna burger patty", "crab cake burger patty", "shrimp burger patty",
    "duck burger patty", "canned tuna", "canned salmon", "canned sardines",
    "canned anchovies", "canned clams", "canned crab meat", "canned shrimp",
    "canned oysters", "canned escargot", "canned beef", "canned chicken",
    "canned herring", "canned sprats",
    "frozen meat (chicken breasts, beef patties)",
    "frozen seafood (shrimp, fish fillets)", "frozen meatballs",
    "frozen sausage", "frozen hot dogs", "frozen burgers",
    "frozen chicken nuggets", "frozen fish sticks", "beef jerky",
    "turkey jerky" }

AllStrings(l) == \A i \in 1..Len(l) : l[i].t = "str"

\* `ingredient in non_vegetarian_ingredients` of a normalised ingredient
IsNonVegetarian(ingredient) ==
    Len(ingredient) = 1 /\ ingredient[1] \in non_vegetarian_ingredients

\* DietaryConflict that compares the ingredients without strip()
DietaryConflict_NoStrip(ingredients, dietary_choice) ==
    /\ \E i \in 1..Len(dietary_choice) :
          lower(dietary_choice[i].s) = <<"vegetarian">>
    /\ \E i \in 1..Len(ingredients) :
          IsNonVegetarian(lower(ingredients[i].s))

\* lines 342-346
DietaryConflict(ingredients, dietary_choice) ==
    /\ \E i \in 1..Len(dietary_choice) :
          lower(dietary_choice[i].s) = <<"vegetarian">>
    /\ \E i \in 1..Len(ingredients) :
          IsNonVegetarian(strip(lower(ingredients[i].s)))

Returns(status, error) ==
    [outcome |-> "return", status |-> status, error |-> error]
Raises == [outcome |-> "raise", status |-> 500,
           error |-> "An unexpected error occurred"]
Proceeds == [outcome |-> "proceed", status |-> 0, error |-> ""]

\* generate_recipe_and_image, lines 283-346: what the view function does
\* with the body before it builds the prompt
validate_request(body) ==
    LET ingredients == AsList(Get(body.ingredients))
        num_people == Get(body.num_people)
        dietary_choice == AsList(GetOrEmpty(body.dietary))
        allergies == AsList(GetOrEmpty(body.allergies))
    IN  IF body.kind # "object" THEN Raises
        ELSE IF ingredients.t # "list"
        THEN Returns(400, "Ingredients should be a list or a comma-separated string")
        ELSE IF dietary_choice.t # "list"
        THEN Returns(400, "Dietary choice should be a list or a comma-separated string")
        ELSE IF allergies.t # "list"
        THEN Returns(400, "Allergies should be a list or a comma-separated string")
        ELSE IF ~Truthy(ingredients) \/ ~Truthy(num_people)
        THEN Returns(400, "Ingredients and number of people are required")
        ELSE IF ~AllStrings(ingredients.l) THEN Raises
        ELSE IF ~AllStrings(dietary_choice.l) THEN Raises
        ELSE IF DietaryConflict(ingredients.l, dietary_choice.l)
        THEN Returns(400, "Non-vegetarian ingredients selected with vegetarian dietary choice")
        ELSE Proceeds

Body(ingredients, num_people, dietary, allergies) ==
    [kind |-> "object", ingredients |-> ingredients,
     num_people |-> num_people, dietary |-> dietary, allergies |-> allergies]

\* the body of a request whose view function has not read it yet
NoBody == [Body(Absent, Absent, Absent, Absent) EXCEPT !.kind = "unread"]

\* request bodies of the system specification
Bodies == {
    [Body(Absent, Absent, Absent, Absent) EXCEPT !.kind = "none"],
    Body(Number(7), Number(2), Absent, Absent),
    Body(List(<<E(<<"egg">>)>>), Absent, Absent, Absent),
    Body(List(<<E(<<"egg">>), NumberEntry>>), Number(2), Absent, Absent),
    Body(List(<<E(<<" ", "Chicken Breast">>)>>), Number(2),
         Str(<<"Vegetarian">>), Absent),
    Body(List(<<E(<<"Tofu">>)>>), Number(2),
         List(<<E(<<"vegetarian">>)>>), Absent),
    Body(List(<<E(<<"Bacon">>), NumberEntry>>), Number(2),
         Str(<<"vegetarian">>), Absent),
    Body(Str(<<"egg", ",", "onion">>), Number(2), List(<<>>), List(<<>>)) }

\* texts the text-generation call returns in the system specification
Texts == {
    <<"**", "Recipe Name", "**", NL, "Soup", NL, NL,
      "**", "Ingredients", "**", NL, "egg", NL,
      "**", "Nutritional Value", "**", NL, "10 kcal", NL,
      "**", "Visualization Prompt", "**", NL, "a bowl">>,
    <<"Soup", NL, "egg", " ">>,
    <<"Unfortunately", ",", " ", "no recipe">> }

\* ------------------------------------------------------------------------
\* Quota Store: the api_keys collection

NewKeyDoc(unique_id) ==
    [user_id |-> unique_id, request_count |-> 0, last_request_time |-> None]

\* rate_limit, lines 93-97: seconds since the last admitted request
elapsed_time_of(last_request_time, current_time) ==
    IF last_request_time # None
    THEN current_time - last_request_time
    ELSE RATE_LIMIT_WINDOW + 1

\* rate_limit_branch with the window test `elapsed_time >= RATE_LIMIT_WINDOW`
rate_limit_branch_WindowInclusive(request_count, elapsed_time) ==
    IF elapsed_time >= RATE_LIMIT_WINDOW THEN "reset"
    ELSE IF request_count >= RATE_LIMIT THEN "reject"
    ELSE "increment"

\* rate_limit_branch with the limit test `request_count > RATE_LIMIT`
rate_limit_branch_LimitExclusive(request_count, elapsed_time) ==
    IF elapsed_time > RATE_LIMIT_WINDOW THEN "reset"
    ELSE IF request_count > RATE_LIMIT THEN "reject"
    ELSE "increment"

\* rate_limit, lines 101-113: which branch is taken
rate_limit_branch(request_count, elapsed_time) ==
    IF elapsed_time > RATE_LIMIT_WINDOW THEN "reset"
    ELSE IF request_count >= RATE_LIMIT THEN "reject"
    ELSE "increment"

\* updated_doc whose reset branch increments the count like the other
updated_doc_NoReset(doc, branch, server_timestamp) ==
    [doc EXCEPT !.request_count = doc.request_count + 1,
                !.last_request_time = server_timestamp]

\* doc_ref.update(...) of the two writing branches, applied by the store to
\* the document as it is when the write arrives (firestore.Increment)
updated_doc(doc, branch, server_timestamp) ==
    IF branch = "reset"
    THEN [doc EXCEPT !.request_count = 1,
                     !.last_request_time = server_timestamp]
    ELSE [doc EXCEPT !.request_count = doc.request_count + 1,
                     !.last_request_time = server_timestamp]

\* verify_api_key that accepts every key
verify_api_key_AnyKey(api_key) == TRUE

\* verify_api_key, lines 78-80: doc.exists
verify_api_key(api_key) == api_key \in DOMAIN api_keys

\* rate_limit, lines 83-87: doc.exists
DocExists(api_key) == api_key \in DOMAIN api_keys

\* ------------------------------------------------------------------------
\* Requests

\* ', '.join(list)
RECURSIVE Join(_)
Join(l) ==
    IF l = <<>> THEN <<>>
    ELSE IF Len(l) = 1 THEN l[1].s
    ELSE l[1].s \o <<",", " ">> \o Join(Tail(l))

NoPrompt == [ingredients |-> <<>>, num_people |-> Null,
             dietary_choice |-> <<>>, allergies |-> <<>>]

\* generate_prompt, lines 132-154: the parts of the prompt that vary
generate_prompt(ingredients, num_people, dietary_choice, allergies) ==
    [ingredients |-> Join(ingredients), num_people |-> num_people,
     dietary_choice |-> Join(dietary_choice), allergies |-> Join(allergies)]

\* generate_prompt, lines 134-147: ', '.join raises on an entry that is no
\* string
prompt_result(ingredients, dietary_choice, allergies) ==
    IF /\ AllStrings(ingredients)
       /\ AllStrings(dietary_choice)
       /\ AllStrings(allergies)
    THEN Proceeds ELSE Raises

IdleRequest ==
    [pc |-> "idle", api_key |-> NoHeader, data |-> NoBody,
     request_count |-> 0, last_request_time |-> None, current_time |-> 0,
     prompt |-> NoPrompt, recipe_response |-> "", recipe_text |-> <<>>, recipe_name |-> <<>>,
     vis_prompt_found |-> FALSE, image_prompt |-> <<>>,
     image_url |-> FALSE, image_data |-> FALSE,
     status |-> 0, error |-> "", response |-> "none", responses |-> 0,
     stages |-> <<>>, calls |-> <<>>]

\* a request that was answered before the next one arrived
ClosedRequest == [IdleRequest EXCEPT !.pc = "closed"]

\* the request r, as the record rec, goes on at pc
Goto(r, rec, pc) == req' = [req EXCEPT ![r] = [rec EXCEPT !.pc = pc]]

\* a response returned by the view function or by its decorator: jsonify
\* of the success triple, or of {'error': error} with a status
Respond(r, rec, status, error) ==
    req' = [req EXCEPT ![r] =
              [rec EXCEPT !.pc = "done", !.status = status, !.error = error,
                          !.response = IF status = 200 THEN "success"
                                       ELSE "error",
                          !.responses = @ + 1,
                          !.stages = Append(rec.stages, "Responding")]]

\* lines 475-476: an exception caught by the view function
RespondUnexpected(r, rec) ==
    Respond(r, rec, 500, "An unexpected error occurred")

\* Continue that tries the stage again when it raised
Continue_Retry(r, rec, res, pc) ==
    CASE res.outcome = "return" -> Respond(r, rec, res.status, res.error)
      [] res.outcome = "raise" -> Goto(r, rec, rec.pc)
      [] OTHER -> Goto(r, rec, pc)

\* the result res of a stage of the view function, for the request r as rec
Continue(r, rec, res, pc) ==
    CASE res.outcome = "return" -> Respond(r, rec, res.status, res.error)
      [] res.outcome = "raise" -> RespondUnexpected(r, rec)
      [] OTHER -> Goto(r, rec, pc)

\* an exception raised in decorated_function, outside the view function's
\* try: it leaves the handler and the HTTP layer answers it
Escape(r, rec) ==
    req' = [req EXCEPT ![r] =
              [rec EXCEPT !.pc = "done", !.status = 500,
                          !.response = "unhandled",
                          !.responses = @ + 1]]

\* the request starts a stage, and makes the stage's remote call if any
Enter(rec, stage, call) ==
    [rec EXCEPT !.stages = Append(@, stage),
                !.calls = IF call = "" THEN @ ELSE Append(@, call)]

StoreOutcomes == {"ok", "raise"}

\* a request arrives with its x-api-key header; requests are numbered in
\* the order of their arrival
Arrive(r, header) ==
    /\ req[r].pc = "idle"
    /\ \A q \in 1..(r - 1) : req[q].pc # "idle"
    /\ Goto(r, Enter([req[r] EXCEPT !.api_key = header], "Authorizing", ""),
            "verify")
    /\ UNCHANGED <<api_keys, users, subscribing, bucket, now, ticks, admits,
                 raced>>

\* decorated_function, lines 120-122
VerifyApiKey(r, outcome) ==
    /\ req[r].pc = "verify"
    /\ IF req[r].api_key = NoHeader
       THEN outcome = "ok"
            /\ Respond(r, req[r], 401, "Invalid or missing API key")
       ELSE IF outcome = "raise" THEN Escape(r, req[r])
       ELSE IF ~verify_api_key(req[r].api_key)
       THEN Respond(r, req[r], 401, "Invalid or missing API key")
       ELSE Goto(r, req[r], "rate_limit")
    /\ UNCHANGED <<api_keys, users, subscribing, bucket, now, ticks, admits,
                 raced>>

\* rate_limit, lines 83-89: the read of the document;
\* decorated_function, line 124, when rate_limit returns False
RateLimitGet(r, outcome) ==
    /\ req[r].pc = "rate_limit"
    /\ IF outcome = "raise" THEN Escape(r, req[r])
       ELSE IF ~DocExists(req[r].api_key)
       THEN Respond(r, req[r], 429, "Rate limit exceeded")
       ELSE LET data == api_keys[req[r].api_key]
            IN  Goto(r, [req[r] EXCEPT
                           !.request_count = data.request_count,
                           !.last_request_time = data.last_request_time],
                     "rl_time")
    /\ UNCHANGED <<api_keys, users, subscribing, bucket, now, ticks, admits,
                 raced>>

\* RateLimitDecide whose rejecting branch writes last_request_time
RateLimitDecide_RejectTouches(r) ==
    /\ req[r].pc = "rl_time"
    /\ LET current_time == now
           elapsed_time == elapsed_time_of(req[r].last_request_time,
                                           current_time)
       IN  IF rate_limit_branch(req[r].request_count, elapsed_time)
                 = "reject"
           THEN /\ Respond(r, [req[r] EXCEPT !.request_count = 0,
                                            !.last_request_time = None],
                           429, "Rate limit exceeded")
                /\ api_keys' = [api_keys EXCEPT
                       ![req[r].api_key].last_request_time = now]
           ELSE /\ Goto(r, [req[r] EXCEPT !.current_time = current_time],
                        "rl_update")
                /\ UNCHANGED api_keys
    /\ UNCHANGED <<users, subscribing, bucket, now, ticks, admits, raced>>

\* rate_limit, lines 90-108: the read of the clock, after the document has
\* come back, and the decision on the two;
\* decorated_function, line 124, when rate_limit returns False
RateLimitDecide(r) ==
    /\ req[r].pc = "rl_time"
    /\ LET current_time == now
           elapsed_time == elapsed_time_of(req[r].last_request_time,
                                           current_time)
       IN  IF rate_limit_branch(req[r].request_count, elapsed_time)
                 = "reject"
           THEN Respond(r, [req[r] EXCEPT !.request_count = 0,
                                         !.last_request_time = None],
                        429, "Rate limit exceeded")
           ELSE Goto(r, [req[r] EXCEPT !.current_time = current_time],
                     "rl_update")
    /\ UNCHANGED <<api_keys, users, subscribing, bucket, now, ticks, admits,
                 raced>>

\* one more admission of key k at time t
Admit(k, t) ==
    admits' = [admits EXCEPT ![k] =
                 IF t \in DOMAIN @ THEN [@ EXCEPT ![t] = @ + 1]
                 ELSE @ @@ (t :> 1)]

\* rate_limit, lines 101-115: the write of the branch decided by the read,
\* then `return True` and the call of the view function
RateLimitUpdate(r, outcome) ==
    /\ req[r].pc = "rl_update"
    /\ IF outcome = "raise"
       THEN Escape(r, req[r]) /\ UNCHANGED <<api_keys, admits, raced>>
       ELSE LET k == req[r].api_key
                elapsed_time == elapsed_time_of(req[r].last_request_time,
                                                req[r].current_time)
                branch == rate_limit_branch(req[r].request_count,
                                            elapsed_time)
            IN  /\ api_keys' = [api_keys EXCEPT
                                  ![k] = updated_doc(@, branch, now)]
                /\ Admit(k, now)
                /\ raced' = IF \/ api_keys[k].request_count
                                       # req[r].request_count
                                 \/ api_keys[k].last_request_time
                                       # req[r].last_request_time
                             THEN raced \cup {k} ELSE raced
                /\ Goto(r, [req[r] EXCEPT !.api_key = NoHeader,
                                          !.request_count = 0,
                                          !.last_request_time = None,
                                          !.current_time = 0],
                        "handler")
    /\ UNCHANGED <<users, subscribing, bucket, now, ticks>>

\* generate_recipe_and_image, line 348: the call of generate_prompt with
\* the fields of the body
prompt_of(body) ==
    generate_prompt(AsList(Get(body.ingredients)).l,
                    Get(body.num_people),
                    AsList(GetOrEmpty(body.dietary)).l,
                    AsList(GetOrEmpty(body.allergies)).l)

\* whether that call returns or raises
prompt_result_of(body) ==
    prompt_result(AsList(Get(body.ingredients)).l,
                  AsList(GetOrEmpty(body.dietary)).l,
                  AsList(GetOrEmpty(body.allergies)).l)

\* generate_recipe_and_image, line 348: the prompt is built, for the
\* request r as rec
Prompt(r, rec, body) ==
    Continue(r,
             IF prompt_result_of(body).outcome = "proceed"
             THEN [rec EXCEPT !.prompt = prompt_of(body)]
             ELSE rec,
             prompt_result_of(body), "textgen")

\* ValidateRequest that gives the charge back when the body is refused
ValidateRequest_Refund(r, body) ==
    /\ req[r].pc = "handler"
    /\ LET rec == Enter([req[r] EXCEPT !.data = body], "Validating", "")
           res == validate_request(body)
       IN  IF res.outcome = "proceed"
           THEN /\ Prompt(r, Enter(rec, "Prompting", ""), body)
                /\ UNCHANGED api_keys
           ELSE /\ Continue(r, rec, res, "textgen")
                /\ api_keys' =
                     [k \in DOMAIN api_keys |->
                        IF api_keys[k].last_request_time = now
                        THEN [api_keys[k] EXCEPT !.request_count = @ - 1]
                        ELSE api_keys[k]]
    /\ UNCHANGED <<users, subscribing, bucket, now, ticks, admits, raced>>

\* generate_recipe_and_image, lines 283-348
ValidateRequest(r, body) ==
    /\ req[r].pc = "handler"
    /\ LET rec == Enter([req[r] EXCEPT !.data = body], "Validating", "")
           res == validate_request(body)
       IN  IF res.outcome = "proceed"
           THEN Prompt(r, Enter(rec, "Prompting", ""), body)
           ELSE Continue(r, rec, res, "textgen")
    /\ UNCHANGED <<api_keys, users, subscribing, bucket, now, ticks, admits,
                 raced>>

TextOutcomes ==
    {[kind |-> k, text |-> <<>>] :
        k \in {"api_status_error", "exception", "no_choices", "no_content"}}
    \cup {[kind |-> "text", text |-> t] : t \in Texts}

\* text_result without the test of line 366: choices[0] raises IndexError
text_result_NoChoicesCheck(kind) ==
    CASE kind = "api_status_error" -> Returns(500, "APIStatusError")
      [] kind = "text" -> Proceeds
      [] OTHER -> Raises

\* lines 355-369 and 473-476: what the view function does with what the
\* text-generation call gives (an APIStatusError, another exception, a
\* response without choices, a choice without content, a text)
text_result(kind) ==
    CASE kind = "api_status_error" -> Returns(500, "APIStatusError")
      [] kind = "no_choices" -> Returns(500, "Failed to generate recipe")
      [] kind = "text" -> Proceeds
      [] OTHER -> Raises

\* lines 355-370: the text-generation call and what comes back
GenerateText(r, outcome) ==
    /\ req[r].pc = "textgen"
    /\ Continue(r, [Enter(req[r], "GeneratingText", "text") EXCEPT
                      !.prompt = NoPrompt,
                      !.recipe_response = outcome.kind,
                      !.recipe_text = strip(outcome.text)],
                text_result(outcome.kind), "extract")
    /\ UNCHANGED <<api_keys, users, subscribing, bucket, now, ticks, admits,
                 raced>>

\* the locals of a request after the extraction x
Extracted(rec, x) ==
    [rec EXCEPT !.recipe_name = x.recipe_name,
                !.recipe_text = x.recipe_text,
                !.vis_prompt_found = x.vis_prompt_found,
                !.image_prompt = x.image_prompt]

\* lines 372-451: the refusal check, then name, body and image prompt
ExtractRecipe(r) ==
    /\ req[r].pc = "extract"
    /\ IF check_recipe_failure(req[r].recipe_text)
       THEN Respond(r, Enter(req[r], "Extracting", ""), 400,
                    "Recipe cannot be generated")
       ELSE Goto(r, Extracted(Enter(req[r], "Extracting", ""),
                              Extract(req[r].recipe_text)),
                 "imagegen")
    /\ UNCHANGED <<api_keys, users, subscribing, bucket, now, ticks, admits,
                 raced>>

ImageOutcomes == {"bad_status", "no_data", "url", "exception"}

\* fetch_image, lines 251-256, and lines 430-431 (455-456)
fetch_image_result(outcome) ==
    CASE outcome = "url" -> Proceeds
      [] outcome = "exception" -> Raises
      [] OTHER -> Returns(500, "Failed to generate image")

\* fetch_image, lines 237-256, called at line 428 (453)
FetchImage(r, outcome) ==
    /\ req[r].pc = "imagegen"
    /\ Continue(r, [Enter(req[r], "GeneratingImage", "image") EXCEPT
                      !.image_url = (outcome = "url")],
                fetch_image_result(outcome), "download")
    /\ UNCHANGED <<api_keys, users, subscribing, bucket, now, ticks, admits,
                 raced>>

DownloadOutcomes == {"bad_status", "bytes", "exception"}

\* download_image_result without the status test of lines 261-262
download_image_result_NoStatusCheck(outcome) ==
    IF outcome = "exception" THEN Raises ELSE Proceeds

\* download_image, lines 261-264
download_image_result(outcome) ==
    IF outcome = "bytes" THEN Proceeds ELSE Raises

\* download_image, lines 258-264, called at line 434 (459)
DownloadImage(r, outcome) ==
    /\ req[r].pc = "download"
    /\ Continue(r, [Enter(req[r], "Downloading", "download") EXCEPT
                      !.image_data = (outcome = "bytes")],
                download_image_result(outcome), "upload")
    /\ UNCHANGED <<api_keys, users, subscribing, bucket, now, ticks, admits,
                 raced>>

\* upload_to_cloud_storage, lines 267-268: blob.upload_from_string under a
\* fresh name (the request's number stands for its uuid4)
UploadImage(r, outcome) ==
    /\ req[r].pc = "upload"
    /\ LET rec == Enter(req[r], "Publishing", "upload")
       IN  IF outcome = "ok"
           THEN /\ bucket' = bucket \cup {[name |-> r, public |-> FALSE]}
                /\ Goto(r, rec, "make_public")
           ELSE /\ RespondUnexpected(r, rec)
                /\ UNCHANGED bucket
    /\ UNCHANGED <<api_keys, users, subscribing, now, ticks, admits, raced>>

\* upload_to_cloud_storage, lines 269-270: blob.make_public, then the
\* success response of lines 441-445 (466-471)
MakePublic(r, outcome) ==
    /\ req[r].pc = "make_public"
    /\ LET rec == Enter(req[r], "", "make_public")
       IN  IF outcome = "ok"
           THEN /\ bucket' = (bucket \ {[name |-> r, public |-> FALSE]})
                                \cup {[name |-> r, public |-> TRUE]}
                /\ Respond(r, [rec EXCEPT !.stages = req[r].stages], 200, "")
           ELSE /\ RespondUnexpected(r, [rec EXCEPT !.stages = req[r].stages])
                /\ UNCHANGED bucket
    /\ UNCHANGED <<api_keys, users, subscribing, now, ticks, admits, raced>>

\* subscribe, lines 52-66: the check of the fields and the write of the
\* user document; the call goes on to the write of the key document.
\* No more calls are in flight than there are keys left to give out.
subscribe(unique_id, subscription_plan, outcome) ==
    /\ Cardinality(DOMAIN api_keys) + Cardinality(subscribing)
          < Cardinality(KeyIds)
    /\ unique_id \notin subscribing
    /\ IF unique_id = "" \/ subscription_plan = ""
       THEN outcome = "ok" /\ UNCHANGED <<users, subscribing>>
       ELSE IF outcome = "raise"
       THEN UNCHANGED <<users, subscribing>>
       ELSE /\ users' = users \cup {unique_id}
            /\ subscribing' = subscribing \cup {unique_id}
    /\ UNCHANGED <<api_keys, bucket, now, ticks, req, admits, raced>>

\* SubscribeKey whose generate_api_key returns the same key on every call
SubscribeKey_SameKey(unique_id, outcome) ==
    /\ unique_id \in subscribing
    /\ subscribing' = subscribing \ {unique_id}
    /\ IF outcome = "raise"
       THEN UNCHANGED <<api_keys, admits>>
       ELSE LET new_api_key == 1
            IN  /\ api_keys' = (new_api_key :> NewKeyDoc(unique_id))
                                   @@ api_keys
                /\ admits' = admits
    /\ UNCHANGED <<users, bucket, now, ticks, req, raced>>

\* subscribe, lines 68-76: the write of the key document under a new key
SubscribeKey(unique_id, outcome) ==
    /\ unique_id \in subscribing
    /\ subscribing' = subscribing \ {unique_id}
    /\ IF outcome = "raise"
       THEN UNCHANGED <<api_keys, admits>>
       ELSE LET new_api_key == CHOOSE k \in KeyIds : k \notin DOMAIN api_keys
            IN  /\ api_keys' = api_keys @@ (new_api_key :> NewKeyDoc(unique_id))
                /\ admits' = admits @@ (new_api_key :> <<>>)
    /\ UNCHANGED <<users, bucket, now, ticks, req, raced>>

\* the clock advances
Tick(d) ==
    /\ ticks < MaxTicks
    /\ now' = now + d
    /\ ticks' = ticks + 1
    /\ UNCHANGED <<api_keys, users, subscribing, bucket, req, admits, raced>>

\* ------------------------------------------------------------------------
\* Start: key 1 exists, fresh from /subscribe or after earlier requests that
\* were all made at time 0
InitDocs == {<<0, None>>, <<RATE_LIMIT - 1, 0>>, <<RATE_LIMIT, 0>>}

Init ==
    /\ \E d \in InitDocs :
         /\ api_keys = (1 :> [user_id |-> "u0", request_count |-> d[1],
                              last_request_time |-> d[2]])
         /\ admits = (1 :> IF d[2] = None THEN <<>> ELSE (d[2] :> d[1]))
    /\ users = {"u0"}
    /\ subscribing = {}
    /\ bucket = {}
    /\ now = 0
    /\ ticks = 0
    /\ raced = {}
    /\ req = [r \in Requests |-> IdleRequest]

\* the whole server: every request is handled by its own thread
Next ==
    \/ \E r \in Requests, header \in Headers : Arrive(r, header)
    \/ \E r \in Requests, outcome \in StoreOutcomes : VerifyApiKey(r, outcome)
    \/ \E r \in Requests, outcome \in StoreOutcomes : RateLimitGet(r, outcome)
    \/ \E r \in Requests : RateLimitDecide(r)
    \/ \E r \in Requests, outcome \in StoreOutcomes : RateLimitUpdate(r, outcome)
    \/ \E r \in Requests, body \in Bodies : ValidateRequest(r, body)
    \/ \E r \in Requests, outcome \in TextOutcomes : GenerateText(r, outcome)
    \/ \E r \in Requests : ExtractRecipe(r)
    \/ \E r \in Requests, outcome \in ImageOutcomes : FetchImage(r, outcome)
    \/ \E r \in Requests, outcome \in DownloadOutcomes : DownloadImage(r, outcome)
    \/ \E r \in Requests, outcome \in StoreOutcomes : UploadImage(r, outcome)
    \/ \E r \in Requests, outcome \in StoreOutcomes : MakePublic(r, outcome)
    \/ \E u \in UniqueIds, p \in Plans, outcome \in StoreOutcomes :
          subscribe(u, p, outcome)
    \/ \E u \in UniqueIds, outcome \in StoreOutcomes : SubscribeKey(u, outcome)
    \/ \E d \in TickDeltas : Tick(d)

Spec == Init /\ [][Next]_vars

\* The decorator under concurrency: the requests run require_api_key
\* (verify_api_key, rate_limit) in any interleaving, up to the call of the
\* view function, which reads and writes nothing of the Quota Store.
QuotaNext ==
    \/ \E r \in Requests, header \in Headers : Arrive(r, header)
    \/ \E r \in Requests, outcome \in StoreOutcomes : VerifyApiKey(r, outcome)
    \/ \E r \in Requests, outcome \in StoreOutcomes : RateLimitGet(r, outcome)
    \/ \E r \in Requests : RateLimitDecide(r)
    \/ \E r \in Requests, outcome \in StoreOutcomes : RateLimitUpdate(r, outcome)
    \/ \E u \in UniqueIds, p \in Plans, outcome \in StoreOutcomes :
          subscribe(u, p, outcome)
    \/ \E u \in UniqueIds, outcome \in StoreOutcomes : SubscribeKey(u, outcome)
    \/ \E d \in TickDeltas : Tick(d)

QuotaSpec == Init /\ [][QuotaNext]_vars

\* The whole handler, one request at a time: a request arrives when the
\* requests before it have been answered, and their records are dropped.
SeqArrive(r, header) ==
    /\ req[r].pc = "idle"
    /\ \A q \in 1..(r - 1) : req[q].pc = "done"
    /\ req' = [q \in Requests |->
                 IF q = r
                 THEN [Enter([req[r] EXCEPT !.api_key = header],
                             "Authorizing", "") EXCEPT !.pc = "verify"]
                 ELSE IF q < r THEN ClosedRequest
                 ELSE req[q]]
    /\ UNCHANGED <<api_keys, users, subscribing, bucket, now, ticks, admits,
                 raced>>

SeqNext ==
    \/ \E r \in Requests, header \in Headers : SeqArrive(r, header)
    \/ \E r \in Requests, outcome \in StoreOutcomes : VerifyApiKey(r, outcome)
    \/ \E r \in Requests, outcome \in StoreOutcomes : RateLimitGet(r, outcome)
    \/ \E r \in Requests : RateLimitDecide(r)
    \/ \E r \in Requests, outcome \in StoreOutcomes : RateLimitUpdate(r, outcome)
    \/ \E r \in Requests, body \in Bodies : ValidateRequest(r, body)
    \/ \E r \in Requests, outcome \in TextOutcomes : GenerateText(r, outcome)
    \/ \E r \in Requests : ExtractRecipe(r)
    \/ \E r \in Requests, outcome \in ImageOutcomes : FetchImage(r, outcome)
    \/ \E r \in Requests, outcome \in DownloadOutcomes : DownloadImage(r, outcome)
    \/ \E r \in Requests, outcome \in StoreOutcomes : UploadImage(r, outcome)
    \/ \E r \in Requests, outcome \in StoreOutcomes : MakePublic(r, outcome)
    \/ \E u \in UniqueIds, p \in Plans, outcome \in StoreOutcomes :
          subscribe(u, p, outcome)
    \/ \E u \in UniqueIds, outcome \in StoreOutcomes : SubscribeKey(u, outcome)
    \/ \E d \in TickDeltas : Tick(d)

SeqSpec == Init /\ [][SeqNext]_vars

\* the values of the fields of a request body: missing, null, of a wrong
\* type, a comma-separated string, a list of strings, a list with an entry
\* that is no string
IngredientValues == {
    Absent, Null, Number(7), Str(<<>>),
    Str(<<"egg", ",", " ", "Bacon", " ">>), Str(<<"Tofu">>),
    List(<<>>), List(<<E(<<"egg">>)>>),
    List(<<E(<<" ", "Chicken Breast">>)>>),
    List(<<E(<<"Bacon">>), NumberEntry>>),
    List(<<E(<<"bacon", " ", "bits">>), E(<<"Tofu">>)>>) }
NumPeopleValues == {Absent, Null, Number(0), Number(2), Number(-3), Str(<<"two">>)}
DietaryValues == {
    Absent, Null, Number(1), Str(<<"Vegetarian">>),
    Str(<<"vegan", ",", " ", "vegetarian">>),
    List(<<>>), List(<<E(<<"VEGETARIAN">>)>>),
    List(<<E(<<"vegan">>), NumberEntry>>),
    List(<<E(<<"vegetarian", " ">>)>>) }
AllergyValues == {Absent, Number(1), Str(<<"nuts">>), List(<<NumberEntry>>)}

BodySpace ==
    {[Body(Absent, Absent, Absent, Absent) EXCEPT !.kind = "none"]}
    \cup {Body(i, n, d, a) : i \in IngredientValues, n \in NumPeopleValues,
                             d \in DietaryValues, a \in AllergyValues}

\* a request of key 1 that rate_limit has just admitted, at time 0, as the
\* first of its key
AdmittedInit ==
    /\ api_keys = (1 :> [user_id |-> "u0", request_count |-> 1,
                         last_request_time |-> 0])
    /\ admits = (1 :> (0 :> 1))
    /\ users = {"u0"}
    /\ subscribing = {}
    /\ bucket = {}
    /\ now = 0
    /\ ticks = 0
    /\ raced = {}
    /\ req = [r \in Requests |->
                IF r = 1
                THEN [Enter(IdleRequest, "Authorizing", "") EXCEPT
                        !.pc = "handler"]
                ELSE IdleRequest]

\* The view function on every kind of request body: one admitted request,
\* from request.get_json() to its response.
ValidatorNext ==
    \/ \E r \in Requests, body \in BodySpace : ValidateRequest(r, body)
    \/ \E r \in Requests, outcome \in TextOutcomes : GenerateText(r, outcome)
    \/ \E r \in Requests : ExtractRecipe(r)
    \/ \E r \in Requests, outcome \in ImageOutcomes : FetchImage(r, outcome)
    \/ \E r \in Requests, outcome \in DownloadOutcomes : DownloadImage(r, outcome)
    \/ \E r \in Requests, outcome \in StoreOutcomes : UploadImage(r, outcome)
    \/ \E r \in Requests, outcome \in StoreOutcomes : MakePublic(r, outcome)

ValidatorSpec == AdmittedInit /\ [][ValidatorNext]_vars

\* the texts the text-generation call may give: a name part, a body, a
\* nutritional section and a visualization prompt, each in the forms the
\* patterns of the extractor look for and in forms they miss
NameParts == {
    <<>>,
    <<"**", "Recipe Name", "**", NL, "Soup", NL, NL>>,
    <<"**", "Recipe Name", ":", "**", NL, "Soup", NL, NL>>,
    <<"**", "Soup", "**", NL, NL>>,
    <<"Soup", NL>>,
    <<"\"", "Soup", "\"", NL>>,
    <<"Recipe Name", ":", " ", "Soup", NL>> }
BodyParts == {
    <<"egg", NL>>,
    <<"**", "Ingredients", "**", NL, "egg", NL>>,
    <<"egg", NL, NL, "Mix", NL>> }
NutritionParts == {
    <<>>,
    <<"**", "Nutritional Value", "**", NL, "10 kcal", NL>>,
    <<"**", "Nutritional value", "**", NL, "10 kcal", NL>>,
    <<"Nutritional Information", ":", " ", "10 kcal", NL>> }
VisParts == {
    <<>>,
    <<"**", "Visualization Prompt", "**", NL, "a bowl", NL>>,
    <<"**", "Visualization Prompt", "**", NL>>,
    <<"**", "Visualization Prompt", ":", "**", NL, "a bowl", NL>>,
    <<"Visualization Prompt", ":", " ", "a bowl", NL>> }

RecipeTexts ==
    {n \o b \o u \o v : n \in NameParts, b \in BodyParts,
                        u \in NutritionParts, v \in VisParts}
    \cup {n \o b \o v \o u : n \in NameParts, b \in BodyParts,
                             u \in NutritionParts, v \in VisParts}

\* a text that holds a phrase of the catalog, as the catalog spells it or
\* with capitals
RefusalTexts ==
    {<<"Soup", NL, phrase, " ", "egg">> : phrase \in failure_phrases}
    \cup {<<"I'm sorry", ",", " ", "no recipe">>,
          <<"Soup", NL, "Due to", " ", "egg">>,
          <<"Soup", NL, "unable to provide a suitable recipe">>}

TextSpace ==
    {[kind |-> "text", text |-> t] : t \in RecipeTexts \cup RefusalTexts}

\* a request of key 1 that passed validation with ingredients "egg,onion"
\* for two people and is about to make the text-generation call
PromptedInit ==
    /\ api_keys = (1 :> [user_id |-> "u0", request_count |-> 1,
                         last_request_time |-> 0])
    /\ admits = (1 :> (0 :> 1))
    /\ users = {"u0"}
    /\ subscribing = {}
    /\ bucket = {}
    /\ now = 0
    /\ ticks = 0
    /\ raced = {}
    /\ req = [r \in Requests |->
                IF r = 1
                THEN [IdleRequest EXCEPT
                        !.pc = "textgen",
                        !.data = Body(Str(<<"egg", ",", "onion">>), Number(2),
                                      List(<<>>), List(<<>>)),
                        !.prompt = generate_prompt(
                            <<E(<<"egg">>), E(<<"onion">>)>>, Number(2),
                            <<>>, <<>>),
                        !.stages = <<"Authorizing", "Validating", "Prompting">>]
                ELSE IdleRequest]

\* The view function on every kind of generated text: one request, from the
\* text-generation call to its response.
ExtractorNext ==
    \/ \E r \in Requests, outcome \in TextSpace : GenerateText(r, outcome)
    \/ \E r \in Requests : ExtractRecipe(r)
    \/ \E r \in Requests, outcome \in ImageOutcomes : FetchImage(r, outcome)
    \/ \E r \in Requests, outcome \in DownloadOutcomes : DownloadImage(r, outcome)
    \/ \E r \in Requests, outcome \in StoreOutcomes : UploadImage(r, outcome)
    \/ \E r \in Requests, outcome \in StoreOutcomes : MakePublic(r, outcome)

ExtractorSpec == PromptedInit /\ [][ExtractorNext]_vars

\* ------------------------------------------------------------------------
\* Properties

Range(f) == {f[i] : i \in DOMAIN f}

\* the step in which request r's rate_limit reads the document
GetStep(r) == req[r].pc = "rate_limit" /\ req'[r].pc # "rate_limit"

\* the store call of the step raised
Unhandled(rec) == rec.pc = "done" /\ rec.response = "unhandled"

\* that step hands the request the document as it is stored, and changes
\* nothing, unless the document is missing or the store call fails
ReadsStored(r) ==
    GetStep(r) /\ DocExists(req[r].api_key)
        => \/ /\ req'[r].pc = "rl_time"
              /\ req'[r].request_count
                     = api_keys[req[r].api_key].request_count
              /\ req'[r].last_request_time
                     = api_keys[req[r].api_key].last_request_time
              /\ api_keys' = api_keys
           \/ Unhandled(req'[r])

\* the step in which request r's rate_limit reads the clock and decides
DecideStep(r) == req[r].pc = "rl_time" /\ req'[r].pc # "rl_time"

\* the step in which request r's rate_limit writes, and the store accepts
UpdateStep(r) == req[r].pc = "rl_update" /\ req'[r].pc = "handler"

\* a request that was answered stays as it is (until its record is dropped)
Stays(r) == req'[r] = req[r] \/ req'[r] = ClosedRequest

\* C1: a request that finds its key's document with request_count below
\* RATE_LIMIT and a last_request_time at most RATE_LIMIT_WINDOW seconds old
\* on the clock it reads next is allowed (it goes on to the write),
\* and the write of such a request leaves the stored request_count exactly
\* one above what it was and sets last_request_time to the time of the write.
C1_AllowsAndIncrements ==
    [][\A r \in Requests :
          LET k == req[r].api_key
          IN  /\ ReadsStored(r)
              /\ ( /\ DecideStep(r)
                   /\ req[r].request_count < RATE_LIMIT
                   /\ req[r].last_request_time # None
                   /\ now - req[r].last_request_time <= RATE_LIMIT_WINDOW )
                 => req'[r].pc = "rl_update" /\ api_keys' = api_keys
              /\ ( /\ UpdateStep(r)
                   /\ req[r].request_count < RATE_LIMIT
                   /\ req[r].last_request_time # None
                   /\ req[r].current_time - req[r].last_request_time
                          <= RATE_LIMIT_WINDOW )
                 => /\ api_keys'[k].request_count
                          = api_keys[k].request_count + 1
                    /\ api_keys'[k].last_request_time = now
       ]_vars

\* C1 witness: a request was admitted exactly RATE_LIMIT_WINDOW seconds after
\* the 99th, and the count went from 99 to 100.
C1_Witness ==
    /\ \E r \in Requests : req[r].pc = "handler"
    /\ api_keys[1].request_count = RATE_LIMIT
    /\ api_keys[1].last_request_time = RATE_LIMIT_WINDOW
    /\ admits[1] = (0 :> (RATE_LIMIT - 1)) @@ (RATE_LIMIT_WINDOW :> 1)

\* C2: a request that finds its key's document with no last_request_time, or
\* with one more than RATE_LIMIT_WINDOW seconds old on the clock it reads
\* next, is allowed whatever the stored count, and its write sets
\* request_count to exactly 1 and
\* last_request_time to the time of the write.
C2_ResetsToOne ==
    [][\A r \in Requests :
          LET k == req[r].api_key
          IN  /\ ReadsStored(r)
              /\ ( /\ DecideStep(r)
                   /\ \/ req[r].last_request_time = None
                      \/ now - req[r].last_request_time > RATE_LIMIT_WINDOW )
                 => req'[r].pc = "rl_update" /\ api_keys' = api_keys
              /\ ( /\ UpdateStep(r)
                   /\ \/ req[r].last_request_time = None
                      \/ req[r].current_time - req[r].last_request_time
                             > RATE_LIMIT_WINDOW )
                 => /\ api_keys'[k].request_count = 1
                    /\ api_keys'[k].last_request_time = now
       ]_vars

\* C2 witness: a key that had RATE_LIMIT admissions at time 0 was reset to 1
\* by a request admitted later.
C2_Witness ==
    /\ \E r \in Requests : req[r].pc = "handler"
    /\ 0 \in DOMAIN admits[1]
    /\ admits[1][0] = RATE_LIMIT
    /\ api_keys[1].request_count = 1
    /\ api_keys[1].last_request_time = RATE_LIMIT_WINDOW + 1

\* C3: a request that finds its key's document with request_count at or
\* above RATE_LIMIT and a last_request_time at most RATE_LIMIT_WINDOW seconds
\* old on the clock it reads next is answered 429 by the decorator, the step changes nothing in the
\* api_keys collection, and the request never enters the view function.
C3_RejectsWithoutWriting ==
    [][\A r \in Requests :
          LET k == req[r].api_key
          IN  /\ ReadsStored(r)
              /\ ( /\ DecideStep(r)
                   /\ req[r].request_count >= RATE_LIMIT
                   /\ req[r].last_request_time # None
                   /\ now - req[r].last_request_time <= RATE_LIMIT_WINDOW )
                 => /\ api_keys' = api_keys
                    /\ admits' = admits
                    /\ req'[r].pc = "done"
                    /\ req'[r].status = 429
                    /\ req'[r].response = "error"
                    /\ req'[r].error = "Rate limit exceeded"
                    /\ req'[r].stages = <<"Authorizing", "Responding">>
                    /\ req'[r].calls = <<>>
              /\ req[r].status = 429 => Stays(r)
       ]_vars

\* C3 witness: a request was answered 429 exactly RATE_LIMIT_WINDOW seconds
\* after the 100th admission, and the document is as it was.
C3_Witness ==
    /\ \E r \in Requests : req[r].pc = "done" /\ req[r].status = 429
    /\ now = RATE_LIMIT_WINDOW
    /\ api_keys[1].request_count = RATE_LIMIT
    /\ api_keys[1].last_request_time = 0

\* C4: a request without x-api-key header, or with a key that has no
\* document, is answered 401 by the decorator; the step creates and changes
\* no document, rate_limit is never called for the request, and no stage of
\* the view function runs for it.
C4_UnauthorizedTouchesNothing ==
    [][\A r \in Requests :
          LET k == req[r].api_key
          IN  /\ ( /\ req[r].pc = "verify"
                   /\ req'[r].pc # "verify"
                   /\ k = NoHeader \/ k \notin DOMAIN api_keys )
                 => /\ api_keys' = api_keys
                    /\ admits' = admits
                    /\ bucket' = bucket
                    /\ \/ /\ req'[r].pc = "done"
                          /\ req'[r].status = 401
                          /\ req'[r].response = "error"
                          /\ req'[r].stages = <<"Authorizing", "Responding">>
                          /\ req'[r].calls = <<>>
                       \/ k # NoHeader /\ Unhandled(req'[r])
              /\ req[r].status = 401 => Stays(r)
       ]_vars

\* C4 witness: a request that named a key without document was answered 401.
C4_Witness ==
    \E r \in Requests :
        /\ req[r].pc = "done"
        /\ req[r].status = 401
        /\ req[r].api_key # NoHeader
        /\ req[r].api_key \notin DOMAIN api_keys

\* the sum of f over the elements of S
RECURSIVE SumOver(_, _)
SumOver(f, S) ==
    IF S = {} THEN 0
    ELSE LET x == CHOOSE x \in S : TRUE
         IN  f[x] + SumOver(f, S \ {x})

\* the requests admitted for key k in the RATE_LIMIT_WINDOW seconds from t0
AdmittedWithin(k, t0) ==
    SumOver(admits[k],
            {t \in DOMAIN admits[k] : t0 <= t /\ t <= t0 + RATE_LIMIT_WINDOW})

\* more than RATE_LIMIT requests were admitted for key k in one window
OverAdmitted(k) ==
    \E t0 \in DOMAIN admits[k] : AdmittedWithin(k, t0) > RATE_LIMIT

\* C5: more than RATE_LIMIT requests are admitted for a key within one
\* window in some interleaving (the witness), and only when a quota write
\* of that key was decided on a document that had changed since it was read.
C5_OverAdmissionOnlyByRace ==
    \A k \in DOMAIN api_keys : OverAdmitted(k) => k \in raced

\* C5 witness: 101 requests admitted for key 1 at time 0.
C5_Witness ==
    /\ OverAdmitted(1)
    /\ api_keys[1].request_count = RATE_LIMIT + 1

\* C6: a request answered with an error has left no object in the bucket.
\* (Fails: blob.make_public can raise after blob.upload_from_string stored
\* the bytes, and nothing deletes the blob.)
C6_ErrorLeavesNoObject ==
    \A r \in Requests :
        req[r].response \in {"error", "unhandled"}
            => \A o \in bucket : o.name # r

\* the stages of a request, in the order of the code: decorated_function
\* (lines 120-125), lines 283-346, 348, 355-370, 372-451, 428, 434, 438, and
\* the return of the response
Stages == <<"Authorizing", "Validating", "Prompting", "GeneratingText",
            "Extracting", "GeneratingImage", "Downloading", "Publishing",
            "Responding">>

\* the remote calls of a request, in the order of the code
CallOrder == <<"text", "image", "download", "upload", "make_public">>

IsPrefix(a, b) == Len(a) <= Len(b) /\ a = SubSeq(b, 1, Len(a))

\* C7: the stages of a request are an initial part of Authorizing, ...,
\* Publishing, in that order, followed by Responding once it is answered;
\* its remote calls are made in the order text, image, download, upload,
\* make_public, each at most once; the image call is made only after the
\* text came back and was parsed, the download only with the URL the image
\* call returned, the upload only with the bytes the download returned.
C7_StagesInOrder ==
    \A r \in Requests :
        LET st == req[r].stages
            calls == Range(req[r].calls)
        IN  /\ \E n \in 0..(Len(Stages) - 1) :
                  \/ st = SubSeq(Stages, 1, n)
                  \/ st = Append(SubSeq(Stages, 1, n), "Responding")
            /\ IsPrefix(req[r].calls, CallOrder)
            /\ "text" \in calls => "Prompting" \in Range(st)
            /\ "image" \in calls
                  => req[r].recipe_response = "text" /\ "Extracting" \in Range(st)
            /\ "download" \in calls => req[r].image_url
            /\ "upload" \in calls => req[r].image_data

\* C7 witness: a request went through every stage and was answered 200.
C7_Witness ==
    \E r \in Requests :
        /\ req[r].status = 200
        /\ req[r].stages = Stages
        /\ req[r].calls = CallOrder

\* the stage in which an answered request failed
FailedStage(rec) == rec.stages[Len(rec.stages) - 1]

\* C8: a request that fails is answered from the stage in which it failed,
\* with 401 or 429 from Authorizing, 400 from Validating (input errors and
\* dietary conflicts) and from Extracting (refusals), and 500 from
\* GeneratingText, GeneratingImage, Downloading and Publishing.
\* (Fails: a body that is no JSON object, or that holds an ingredient or a
\* dietary choice that is no string, raises in Validating and is answered
\* 500.)
C8_StatusByStage ==
    \A r \in Requests :
        req[r].response = "error"
            => LET stage == FailedStage(req[r])
               IN  /\ req[r].pc = "done"
                   /\ stage = "Authorizing" => req[r].status \in {401, 429}
                   /\ stage \in {"Validating", "Extracting"}
                          => req[r].status = 400
                   /\ stage \in {"GeneratingText", "GeneratingImage",
                                 "Downloading", "Publishing"}
                          => req[r].status = 500

\* C9 as claimed: a text-generation response without choices ends the
\* request with status 400 as an infeasible recipe, and no image call.
C9_NoChoicesIs400 ==
    \A r \in Requests :
        req[r].recipe_response = "no_choices"
            => /\ req[r].status = 400
               /\ req[r].error = "Recipe cannot be generated"
               /\ "image" \notin Range(req[r].calls)

\* C9 as amended: a text-generation response without choices ends the
\* request with status 500 and the error 'Failed to generate recipe', and
\* the text call is the only remote call of the request.
C9_NoChoicesIs500 ==
    \A r \in Requests :
        req[r].recipe_response = "no_choices"
            => /\ req[r].pc = "done"
               /\ req[r].response = "error"
               /\ req[r].status = 500
               /\ req[r].error = "Failed to generate recipe"
               /\ req[r].calls = <<"text">>
               /\ FailedStage(req[r]) = "GeneratingText"

\* C9 witness: a request whose text call returned no choices was answered.
C9_Witness ==
    \E r \in Requests :
        req[r].recipe_response = "no_choices" /\ req[r].pc = "done"

\* C10: no exception leaves the handler: every answered request was
\* answered by the view function or its decorator.
\* (Fails: the Firestore calls of verify_api_key and rate_limit are made
\* outside the try of the view function.)
C10_NoExceptionEscapes ==
    \A r \in Requests : req[r].response # "unhandled"

\* the strings of a field of the body, given as a list or as one
\* comma-separated string
Entries(v) ==
    IF v.t = "str" THEN split(v.s)
    ELSE IF v.t = "list" THEN [i \in 1..Len(v.l) |-> v.l[i].s]
    ELSE <<>>

\* a field that is a string or a list of strings
IsStrings(v) == v.t = "str" \/ (v.t = "list" /\ AllStrings(v.l))

\* the body is a RecipeRequest: ingredients (not empty), dietary and
\* allergies are strings or lists of strings (the last two may be missing),
\* and num_people is a positive number
IsRecipeRequest(body) ==
    /\ body.kind = "object"
    /\ IsStrings(body.ingredients)
    /\ Entries(body.ingredients) # <<>>
    /\ body.ingredients.t = "str" => body.ingredients.s # <<>>
    /\ body.num_people.t = "int"
    /\ body.num_people.n > 0
    /\ body.dietary.t = "absent" \/ IsStrings(body.dietary)
    /\ body.allergies.t = "absent" \/ IsStrings(body.allergies)

\* some dietary choice is vegetarian, in any case of letters
ChoosesVegetarian(body) ==
    \E i \in 1..Len(Entries(body.dietary)) :
        lower(Entries(body.dietary)[i]) = <<"vegetarian">>

\* some ingredient, in lower case and trimmed, is in the catalog
HasNonVegetarian(body) ==
    \E i \in 1..Len(Entries(body.ingredients)) :
        \E name \in non_vegetarian_ingredients :
            strip(lower(Entries(body.ingredients)[i])) = <<name>>

\* C11: every request whose dietary choices include vegetarian and one of
\* whose ingredients is in the non-vegetarian catalog is answered 400 with
\* the dietary conflict error in Validating, without any remote call; and a
\* RecipeRequest without such a conflict (tofu with vegetarian) passes
\* validation.
\* (Fails: when the conflicting body also holds an ingredient or a dietary
\* choice that is no string, the request is answered 500; when it lacks
\* num_people, it is answered 400 for the missing field.)
C11_VegetarianConflictRejected ==
    \A r \in Requests :
        LET body == req[r].data
        IN  /\ body.kind = "object" /\ ChoosesVegetarian(body)
                  /\ HasNonVegetarian(body)
               => /\ req[r].pc = "done"
                  /\ req[r].response = "error"
                  /\ req[r].calls = <<>>
                  /\ req[r].stages
                        = <<"Authorizing", "Validating", "Responding">>
                  /\ req[r].status = 400
                  /\ req[r].error = "Non-vegetarian ingredients selected with vegetarian dietary choice"
            /\ IsRecipeRequest(body)
                  /\ ~(ChoosesVegetarian(body) /\ HasNonVegetarian(body))
               => "Prompting" \in Range(req[r].stages)

\* what holds of such requests: each ends in Validating without any remote
\* call; when its body is a RecipeRequest it is answered 400 with the
\* dietary conflict error; and a RecipeRequest without such a conflict
\* passes validation
ConflictRejectedWhenWellFormed ==
    \A r \in Requests :
        LET body == req[r].data
        IN  /\ body.kind = "object" /\ ChoosesVegetarian(body)
                  /\ HasNonVegetarian(body)
               => /\ req[r].pc = "done"
                  /\ req[r].response = "error"
                  /\ req[r].calls = <<>>
                  /\ req[r].stages
                        = <<"Authorizing", "Validating", "Responding">>
                  /\ IsRecipeRequest(body)
                        => /\ req[r].status = 400
                           /\ req[r].error = "Non-vegetarian ingredients selected with vegetarian dietary choice"
            /\ IsRecipeRequest(body)
                  /\ ~(ChoosesVegetarian(body) /\ HasNonVegetarian(body))
               => "Prompting" \in Range(req[r].stages)

\* the admitted request of AdmittedInit is one the server reaches
AdmittedReachable == ~AdmittedInit

\* the prompted request of PromptedInit is one the server reaches
PromptedReachable == ~PromptedInit

\* " Chicken Breast" with "Vegetarian" was answered 400
ChickenBreastRejected ==
    \E r \in Requests :
        /\ req[r].pc = "done"
        /\ req[r].status = 400
        /\ IsRecipeRequest(req[r].data)
        /\ ChoosesVegetarian(req[r].data)
        /\ HasNonVegetarian(req[r].data)
        /\ Entries(req[r].data.ingredients) = <<(<<" ", "Chicken Breast">>)>>

\* the headings of a nutritional section and of a visualization prompt
SectionMarkers ==
    {"Nutritional Value", "Nutritional value", "Nutritional Information",
     "Visualization Prompt"}

HasMarker(s) == \E i \in 1..Len(s) : s[i] \in SectionMarkers

\* C12: whatever text the text-generation call returned, the recipe of a
\* success response, and the image prompt that is built from the body, hold
\* no nutritional heading and no visualization-prompt heading.
\* (Fails: the prompt asks for "**Nutritional value**" but
\* remove_nutritional_info looks for "**Nutritional Value**"; a heading
\* "**Visualization Prompt**" without a following line is kept too.)
C12_NoNutritionalOrPromptMarker ==
    \A r \in Requests :
        /\ req[r].status = 200 => ~HasMarker(req[r].recipe_text)
        /\ "image" \in Range(req[r].calls) /\ ~req[r].vis_prompt_found
              => ~HasMarker(req[r].image_prompt)

\* the request has a body produced by the extraction
HasBody(rec) ==
    "Extracting" \in Range(rec.stages) /\ rec.pc # "extract"
        /\ ~(rec.status = 400 /\ FailedStage(rec) = "Extracting")

\* a second run of the name patterns on the body b matches no rule and
\* leaves b as it is
SecondRunIdle(b) ==
    ExtractName(b).rule = 0 /\ ExtractName(b).recipe_text = b

\* a second run of the name patterns on the body b matches a rule and
\* removes its match from b
SecondRunMatches(b) ==
    ExtractName(b).rule # 0 /\ ExtractName(b).recipe_text # b

OneLine(b) == \A i \in 1..Len(b) : b[i] # NL

\* the text of a request about to be extracted, after the name patterns
NamedBody(rec) == ExtractName(rec.recipe_text).recipe_text

\* C13 as claimed: the name patterns, applied to the body a first
\* extraction produced (right after the name was taken, and at the end of
\* the extraction), match no rule and leave the body unchanged.
C13_NameExtractionIdempotent ==
    \A r \in Requests :
        /\ req[r].pc = "extract" /\ ~check_recipe_failure(req[r].recipe_text)
              => SecondRunIdle(NamedBody(req[r]))
        /\ HasBody(req[r]) => SecondRunIdle(req[r].recipe_text)

\* the second run on the body b: idle on one line, matching on several
OneLineIdempotent(b) ==
    /\ OneLine(b) /\ ~StartsAt(b, 1, <<"Recipe Name", ":">>)
          => SecondRunIdle(b)
    /\ ~OneLine(b) => SecondRunMatches(b)

\* C13 as amended: on a body of one line that does not begin with
\* "Recipe Name:" the second run matches no rule and changes nothing; on a
\* body of several lines it matches a rule and removes the match from the
\* body.
C13_IdempotentOnOneLine ==
    \A r \in Requests :
        /\ req[r].pc = "extract" /\ ~check_recipe_failure(req[r].recipe_text)
              => OneLineIdempotent(NamedBody(req[r]))
        /\ HasBody(req[r]) => OneLineIdempotent(req[r].recipe_text)

\* C13 witness: an extraction took the name "Soup" and left the one-line
\* body "egg", on which a second run is idle.
C13_Witness ==
    \E r \in Requests :
        /\ HasBody(req[r])
        /\ req[r].recipe_name = <<"Soup">>
        /\ req[r].recipe_text = <<"egg">>
        /\ SecondRunIdle(req[r].recipe_text)

\* the text holds a phrase of the catalog, whatever the case of its letters
ContainsPhrase(text) ==
    \E i \in 1..Len(text) :
        \E phrase \in failure_phrases : LowerTok(text[i]) = LowerTok(phrase)

\* the request was answered as an infeasible recipe, without image call
Refused(rec) ==
    /\ rec.pc = "done"
    /\ rec.status = 400
    /\ rec.error = "Recipe cannot be generated"
    /\ rec.stages[Len(rec.stages) - 1] = "Extracting"
    /\ rec.calls = <<"text">>

\* C14: a generated text that holds a phrase of the refusal catalog
\* ("I'm sorry" included), in any case of letters, ends the request with
\* status 400 as an infeasible recipe and without image call, and a text
\* that holds no phrase of the catalog is not refused.
\* (Fails: the text is put in lower case, the phrase "I'm sorry" is not.)
C14_RefusalByEveryPhrase ==
    [][\A r \in Requests :
          req[r].pc = "extract" /\ req'[r].pc # "extract"
              => (ContainsPhrase(req[r].recipe_text) <=> Refused(req'[r]))
      ]_vars

\* the positions of a request in the handler: at each, one blocking call or
\* one local computation is pending, which returns or raises
HandlerPositions ==
    {"verify", "rate_limit", "rl_time", "rl_update", "handler", "textgen",
     "extract", "imagegen", "download", "upload", "make_public"}

\* how often x occurs in the sequence seq
Count(seq, x) == Cardinality({i \in 1..Len(seq) : seq[i] = x})

\* C15: a request is answered once: an answered request has exactly one
\* response, and a request that arrived and has none yet is at a position
\* of the handler; each remote operation (text, image, download, upload,
\* make_public) was called at most once for the request, also after it
\* failed.
C15_OneResponseNoRetry ==
    \A r \in Requests :
        /\ req[r].responses <= 1
        /\ req[r].pc = "done" <=> req[r].responses = 1
        /\ req[r].stages # <<>> /\ req[r].responses = 0
              => req[r].pc \in HandlerPositions
        /\ \A i \in 1..Len(CallOrder) : Count(req[r].calls, CallOrder[i]) <= 1
        /\ \A i \in 1..(Len(req[r].stages) - 1) :
              req[r].stages[i] # "Responding"

\* C15 witness: the image call of a request failed, and the request was
\* answered 500 with its one text call and its one image call.
C15_Witness ==
    \E r \in Requests :
        /\ req[r].pc = "done"
        /\ req[r].status = 500
        /\ req[r].responses = 1
        /\ req[r].calls = <<"text", "image">>

\* a field that is present and neither a string nor a list
WrongType(v) == v.t \notin {"absent", "str", "list"}

\* the body is malformed: no JSON object; ingredients missing, or neither
\* string nor list, or with an entry that is no string; num_people missing
\* or no positive number; dietary or allergies neither string nor list
Malformed(body) ==
    \/ body.kind # "object"
    \/ body.ingredients.t \notin {"str", "list"}
    \/ body.ingredients.t = "list" /\ ~AllStrings(body.ingredients.l)
    \/ body.num_people.t # "int"
    \/ body.num_people.n <= 0
    \/ WrongType(body.dietary)
    \/ WrongType(body.allergies)

\* C16: a request whose body is malformed is answered 400 in Validating and
\* makes no remote call.
\* (Fails: a body that is no JSON object and an ingredient that is no string
\* raise and are answered 500; a num_people that is negative or no number is
\* accepted, and the request goes on to the text-generation call.)
C16_MalformedInputIs400 ==
    \A r \in Requests :
        req[r].data.kind # "unread" /\ Malformed(req[r].data)
            => /\ req[r].pc = "done"
               /\ req[r].status = 400
               /\ req[r].calls = <<>>

\* request r returns from rate_limit with True in this step: the write of
\* lines 102-105 or 110-113 has been made for the key of its header
Charges(r, k) ==
    /\ req[r].pc = "rl_update"
    /\ req'[r].pc = "handler"
    /\ req[r].api_key = k

\* C17: the document of an existing key changes only in a step in which a
\* request returns from rate_limit with True for that key; no step after
\* authorization, and no subscribe step, changes or removes the document of
\* an existing key; a key that appears is new, with request_count 0 and
\* no last_request_time.
C17_QuotaOwnedByRateLimit ==
    [][/\ DOMAIN api_keys \subseteq DOMAIN api_keys'
       /\ \A k \in DOMAIN api_keys :
              api_keys'[k] # api_keys[k]
                  => /\ \E r \in Requests : Charges(r, k)
                     /\ api_keys'[k].user_id = api_keys[k].user_id
       /\ \A k \in DOMAIN api_keys' \ DOMAIN api_keys :
              /\ api_keys'[k].request_count = 0
              /\ api_keys'[k].last_request_time = None
              /\ req' = req]_vars

\* C17 witness: /subscribe has created key 2 next to key 1, a request with
\* key 1 went through the whole pipeline and stored its image, and key 1
\* carries the charge of that request while key 2 is as it was created.
C17_Witness ==
    /\ DOMAIN api_keys = {1, 2}
    /\ api_keys[2] = NewKeyDoc("u1")
    /\ admits[2] = <<>>
    /\ api_keys[1].last_request_time # None
    /\ \E r \in Requests :
          req[r].pc = "done" /\ req[r].status = 200 /\ bucket # {}

\* C18: with the requests handled one at a time, the stored request_count
\* of every key stays within 0..RATE_LIMIT, and no more than RATE_LIMIT
\* requests of a key are admitted in any RATE_LIMIT_WINDOW seconds, although
\* every admitted request moves last_request_time forward.
C18_SequentialBound ==
    \A k \in DOMAIN api_keys :
        /\ api_keys[k].request_count \in 0..RATE_LIMIT
        /\ ~OverAdmitted(k)
        /\ k \notin raced

\* C18 witness: key 1 had 99 requests admitted at time 0 and its 100th at
\* time 1, which moved last_request_time to 1; the next request, made at
\* time 3601 (more than a window after the first admission, exactly a
\* window after the last), is answered 429.
C18_Witness ==
    /\ admits[1] = (0 :> (RATE_LIMIT - 1)) @@ (1 :> 1)
    /\ api_keys[1].request_count = RATE_LIMIT
    /\ api_keys[1].last_request_time = 1
    /\ now = RATE_LIMIT_WINDOW + 1
    /\ \E r \in Requests : req[r].pc = "done" /\ req[r].status = 429

\* the time of the last admitted request of key k (it has one)
LastAdmitted(k) ==
    CHOOSE t \in DOMAIN admits[k] : \A u \in DOMAIN admits[k] : u <= t

\* request r is answered 429 in this step
RejectStep(r) ==
    /\ req[r].pc \in {"rate_limit", "rl_time"}
    /\ req'[r].pc = "done"
    /\ req'[r].status = 429

\* C19: a request answered 429 leaves the key's document as it is, so the
\* stored last_request_time is always the time of the key's last admitted
\* request; a request that reads the clock more than RATE_LIMIT_WINDOW
\* seconds after that time is not rejected, whatever the count it read and
\* however many requests were rejected before (it goes on to the write),
\* and its write sets the count to 1.
C19_NeverBlockedForever ==
    [][\A r \in Requests :
          LET k == req[r].api_key
          IN  /\ RejectStep(r) => api_keys' = api_keys /\ admits' = admits
              /\ \A j \in DOMAIN api_keys :
                    admits[j] # <<>>
                        => api_keys[j].last_request_time = LastAdmitted(j)
              /\ ReadsStored(r)
              /\ ( /\ DecideStep(r)
                   /\ k \in DOMAIN api_keys
                   /\ admits[k] # <<>>
                   /\ now - LastAdmitted(k) > RATE_LIMIT_WINDOW )
                 => /\ req'[r].pc = "rl_update"
                    /\ elapsed_time_of(req'[r].last_request_time,
                                       req'[r].current_time)
                           > RATE_LIMIT_WINDOW
              /\ ( /\ UpdateStep(r)
                   /\ req[r].last_request_time # None
                   /\ req[r].current_time - req[r].last_request_time
                          > RATE_LIMIT_WINDOW )
                 => /\ api_keys'[k].request_count = 1
                    /\ admits'[k][now] >= 1
       ]_vars

\* C19 witness: key 1 had used up its quota at time 0, a request made with
\* it within the window was answered 429, and a request made at time 3601
\* was admitted with the count reset to 1.
C19_Witness ==
    /\ \E r \in Requests :
          req[r].pc = "done" /\ req[r].status = 429 /\ req[r].api_key = 1
    /\ \E r \in Requests : req[r].pc = "handler"
    /\ admits[1] = (0 :> RATE_LIMIT) @@ ((RATE_LIMIT_WINDOW + 1) :> 1)
    /\ api_keys[1].request_count = 1
    /\ api_keys[1].last_request_time = RATE_LIMIT_WINDOW + 1

\* the positions of a request inside the view function
ViewPositions ==
    HandlerPositions \ {"verify", "rate_limit", "rl_time", "rl_update"}

\* the number of requests of key k admitted at time t
AdmittedAt(k, t) == IF t \in DOMAIN admits[k] THEN admits[k][t] ELSE 0

\* C20: the step in which a request passes authorization and enters the
\* view function charges its key (the count goes up by one or is reset to
\* 1, last_request_time becomes the time of the step, and the document is
\* not what it was); no step of the view function, whether it goes on,
\* answers 200 or answers an error, changes the document of any key; every
\* change of a key's document is such a charge, never a refund; so a
\* request that has entered the view function leaves a key with a count of
\* at least 1 and a last_request_time, whatever its answer.
C20_ChargedAtAdmission ==
    [][\A r \in Requests :
          /\ req[r].pc # "handler" /\ req'[r].pc = "handler"
                => LET k == req[r].api_key
                   IN  /\ k \in DOMAIN api_keys
                       /\ api_keys'[k] # api_keys[k]
                       /\ api_keys'[k].last_request_time = now
                       /\ api_keys'[k].request_count
                              \in {api_keys[k].request_count + 1, 1}
                       /\ now \in DOMAIN admits'[k]
                       /\ admits'[k][now] = AdmittedAt(k, now) + 1
          /\ req[r].pc \in ViewPositions /\ req'[r] # req[r]
                => \A k \in DOMAIN api_keys :
                       api_keys'[k] = api_keys[k] /\ admits'[k] = admits[k]
          /\ \A k \in DOMAIN api_keys :
                api_keys'[k] # api_keys[k]
                    => /\ api_keys'[k].last_request_time = now
                       /\ api_keys'[k].request_count
                              \in {api_keys[k].request_count + 1, 1}
          /\ "Validating" \in Range(req[r].stages)
                => \E k \in DOMAIN api_keys :
                       /\ api_keys[k].request_count >= 1
                       /\ api_keys[k].last_request_time # None
       ]_vars

\* C20 witness: two requests were made with the fresh key 1 at time 0, no
\* image was stored for either, the second was answered 400 or 500 by the
\* view function, and the key carries the charge of both.
C20_Witness ==
    /\ admits[1] = (0 :> 2)
    /\ api_keys[1].request_count = 2
    /\ api_keys[1].last_request_time = 0
    /\ bucket = {}
    /\ req[2].pc = "done"
    /\ req[2].status \in {400, 500}
    /\ "Validating" \in Range(req[2].stages)

\* the time at which the current window of key k began: the last admission
\* of k that no admission of k preceded by RATE_LIMIT_WINDOW seconds or less
WindowStart(k) ==
    CHOOSE t \in DOMAIN admits[k] :
        /\ \A u \in DOMAIN admits[k] :
               u < t => t - u > RATE_LIMIT_WINDOW
        /\ \A v \in DOMAIN admits[k] :
               (\A u \in DOMAIN admits[k] :
                    u < v => v - u > RATE_LIMIT_WINDOW) => v <= t

\* the requests of key k admitted since its current window began
AdmittedSinceReset(k) ==
    IF admits[k] = <<>> THEN 0
    ELSE SumOver(admits[k],
                 {t \in DOMAIN admits[k] : t >= WindowStart(k)})

\* no request is inside the decorator: each has been answered or has
\* returned from rate_limit
Quiescent ==
    \A r \in Requests :
        req[r].pc \notin {"verify", "rate_limit", "rl_time", "rl_update"}

\* C21: in every interleaving, once the requests have left rate_limit, no
\* admitted request is missing from the count: the stored request_count of
\* every key is not below the number of requests admitted for it since its
\* current window began (as it must be, to equal that number).
\* (Fails: a reset write puts 1 over whatever the other requests of the
\* same window have written, so two requests that both read an expired
\* document leave the count at 1.)
C21_NoLostCount ==
    Quiescent =>
        \A k \in DOMAIN api_keys :
            api_keys[k].request_count >= AdmittedSinceReset(k)

\* a count that misses an admitted request comes from a write decided on a
\* document that had changed since it was read
C21_LostOnlyByRace ==
    \A k \in DOMAIN api_keys :
        api_keys[k].request_count < AdmittedSinceReset(k) => k \in raced

====
